---- MODULE Spec2Model ----
(***************************************************************************)
(* StatefulSet metric families of kube-state-metrics                       *)
(* (internal/store/statefulset.go): the family catalog, the raw            *)
(* extractors, the identity label wrapper and the list/watch factory.      *)
(*                                                                         *)
(* Go values are modelled as follows.                                      *)
(*   - a pointer or an optional value is a sequence of length 0 (nil,      *)
(*     unset) or 1 (the value);                                            *)
(*   - a map[string]string is a function whose domain is its key set;      *)
(*   - a []string held in a metric is a slice header: base "nil", "own"    *)
(*     (a backing array no one else references, carried in elems) or       *)
(*     "global" (the backing array of the package variable                 *)
(*     descStatefulSetLabelsDefaultLabels, of which it shows the first     *)
(*     len elements);                                                      *)
(*   - float64(x) of the small integers used here is x.                    *)
(***************************************************************************)
EXTENDS Integers, Sequences, FiniteSets, TLC

VARIABLES
    allowLabelsList,       \* argument of statefulSetMetricFamilies, captured by the labels closure
    allowAnnotationsList,  \* argument of statefulSetMetricFamilies, captured by the annotations closure
    built,                 \* statefulSetMetricFamilies has returned
    families,              \* the catalog it returned
    descStatefulSetLabelsDefaultLabels, \* backing array of the package-level slice
    pc,                    \* per goroutine: "idle", "wrap" (inside the wrapper's loop), "returned"
    fam,                   \* per goroutine: index in families of the generator being run
    statefulSet,           \* per goroutine: the object passed to the wrapped extractor
    metricFamily,          \* per goroutine: metricFamily.Metrics of the wrapper
    idx,                   \* per goroutine: position of the range loop
    lwNs,                  \* ns captured by createStatefulSetListWatch
    lwRequests,            \* calls made by the user of the ListWatch: <<verb, opts>>
    clientCalls,           \* calls received by kubeClient.AppsV1().StatefulSets(ns)
    clientReturned,        \* what the client returned to the last call
    lwReturned             \* what ListFunc / WatchFunc returned to the last call

extractVars == <<allowLabelsList, allowAnnotationsList, built, families,
                 descStatefulSetLabelsDefaultLabels, pc, fam, statefulSet,
                 metricFamily, idx>>
lwVars == <<lwNs, lwRequests, clientCalls, clientReturned, lwReturned>>
vars == <<allowLabelsList, allowAnnotationsList, built, families,
          descStatefulSetLabelsDefaultLabels, pc, fam, statefulSet,
          metricFamily, idx, lwNs, lwRequests, clientCalls, clientReturned,
          lwReturned>>

(***************************************************************************)
(* Bounds                                                                  *)
(***************************************************************************)
\* total number of keys configured over the two allow-lists
MaxAllowKeys == 2
\* goroutines running wrapped extractors at the same time
NumWorkers == 2
\* list/watch calls made through one ListWatch
MaxCalls == 3

Workers == 1..NumWorkers

(***************************************************************************)
(* Inputs: StatefulSet objects                                             *)
(***************************************************************************)
ZeroStatefulSet ==
    [ Namespace         |-> "",
      Name              |-> "",
      CreationTimestamp |-> <<>>,
      Generation        |-> 0,
      Labels            |-> <<>>,
      Annotations       |-> <<>>,
      Spec              |-> [ Replicas |-> <<>> ],
      Status            |-> [ Replicas           |-> 0,
                              CurrentReplicas    |-> 0,
                              ReadyReplicas      |-> 0,
                              UpdatedReplicas    |-> 0,
                              ObservedGeneration |-> 0,
                              CurrentRevision    |-> "",
                              UpdateRevision     |-> "" ] ]

\* namespace and name of the objects
Identities == { <<"ns1", "web">>, <<"ns2", "db">>, <<"ns2", "web">> }
\* unset, the epoch itself, a later instant (Unix seconds)
Timestamps == {<<>>, <<0>>, <<1500000000>>}
OptReplicas == {<<>>, <<0>>, <<3>>}
Counts == {0, 3}
Generations == {0, 5}
CurrentRevisions == {"", "web-1"}
UpdateRevisions == {"", "web-2"}
LabelMaps == { <<>>, ("a" :> "1" @@ "b" :> "2" @@ "c" :> "3"), ("c" :> "9") }
AnnotationMaps == { <<>>, ("a" :> "x" @@ "b" :> "y") }

Named(ns, name) == [ZeroStatefulSet EXCEPT !.Namespace = ns, !.Name = name]

\* objects that differ from the zero object in identity, metadata and spec
MetaObjects ==
    { [Named(id[1], id[2]) EXCEPT !.CreationTimestamp = t, !.Spec.Replicas = r,
                                  !.Generation = g] :
        id \in Identities, t \in Timestamps, r \in OptReplicas, g \in Generations }

\* objects that differ in identity and status counters
StatusObjects ==
    { [Named(id[1], id[2]) EXCEPT !.Status.Replicas = c[1],
                                  !.Status.CurrentReplicas = c[2],
                                  !.Status.ReadyReplicas = c[3],
                                  !.Status.UpdatedReplicas = c[4],
                                  !.Status.ObservedGeneration = c[5]] :
        id \in Identities,
        c \in Counts \X Counts \X Counts \X Counts \X Generations }

\* objects that differ in identity and revisions
RevisionObjects ==
    { [Named(id[1], id[2]) EXCEPT !.Status.CurrentRevision = cr,
                                  !.Status.UpdateRevision = ur] :
        id \in Identities, cr \in CurrentRevisions, ur \in UpdateRevisions }

\* objects that differ in identity, labels and annotations
LabelObjects ==
    { [Named(id[1], id[2]) EXCEPT !.Labels = l, !.Annotations = a] :
        id \in Identities, l \in LabelMaps, a \in AnnotationMaps }

Objects == MetaObjects \cup StatusObjects \cup RevisionObjects \cup LabelObjects

\* the objects offered to concurrently running extractors
ConcObjects ==
    { [Named("ns1", "web") EXCEPT !.Labels = ("a" :> "1" @@ "b" :> "2" @@ "c" :> "3"),
                                  !.Status.CurrentRevision = "web-1",
                                  !.Spec.Replicas = <<3>>],
      [Named("ns2", "db") EXCEPT !.Labels = ("c" :> "9"),
                                 !.Status.UpdateRevision = "web-2"] }

(***************************************************************************)
(* Inputs: allow-lists                                                     *)
(***************************************************************************)
LabelAllowKeys == {"a", "c", "namespace"}
AnnotationAllowKeys == {"a"}

RECURSIVE SeqsUpTo(_, _)
SeqsUpTo(S, n) ==
    IF n = 0 THEN { <<>> }
    ELSE LET shorter == SeqsUpTo(S, n - 1)
         IN  shorter \cup { Append(s, x) : s \in shorter, x \in S }

\* the pairs <<allowLabelsList, allowAnnotationsList>> the catalog is built from
Configs ==
    { c \in SeqsUpTo(LabelAllowKeys, MaxAllowKeys)
              \X SeqsUpTo(AnnotationAllowKeys, MaxAllowKeys) :
        Len(c[1]) + Len(c[2]) <= MaxAllowKeys }

ConcConfigs == { << <<"a", "c">>, <<"a">> >>, << <<>>, <<>> >> }

(***************************************************************************)
(* Go slices and append                                                    *)
(***************************************************************************)
NilSlice == [base |-> "nil", len |-> 0, cap |-> 0, elems |-> <<>>]

\* a slice literal []string{...}: a fresh array exactly as long as the literal
SliceLit(xs) == [base |-> "own", len |-> Len(xs), cap |-> Len(xs), elems |-> xs]

\* the elements a slice shows, given the contents of the shared array
Contents(arr, s) ==
    IF s.base = "global" THEN SubSeq(arr, 1, s.len) ELSE s.elems

\* append(s, xs...) writes in place when the capacity allows it
AppendsInPlace(s, xs) == s.len + Len(xs) <= s.cap

\* the slice header append(s, xs...) returns
GoAppend(arr, s, xs) ==
    IF AppendsInPlace(s, xs)
    THEN IF s.base = "global"
         THEN [s EXCEPT !.len = s.len + Len(xs)]
         ELSE [s EXCEPT !.len = s.len + Len(xs), !.elems = s.elems \o xs]
    ELSE SliceLit(Contents(arr, s) \o xs)

\* the shared array after append(s, xs...)
GoAppendWrites(arr, s, xs) ==
    IF AppendsInPlace(s, xs) /\ s.base = "global"
    THEN [i \in DOMAIN arr |->
            IF i > s.len /\ i <= s.len + Len(xs) THEN xs[i - s.len] ELSE arr[i]]
    ELSE arr

(***************************************************************************)
(* Package variables                                                       *)
(***************************************************************************)
descStatefulSetLabelsName == "kube_statefulset_labels"

\* the mutant: the same two labels in an array with spare capacity
DefaultLabelsSpareCap == [base |-> "global", len |-> 2, cap |-> 4, elems |-> <<>>]
\* the slice header of descStatefulSetLabelsDefaultLabels: a two-element literal
DefaultLabelsSlice == [base |-> "global", len |-> 2, cap |-> 2, elems |-> <<>>]

\* the backing array of descStatefulSetLabelsDefaultLabels at start-up
DefaultLabelsArray ==
    [i \in 1..DefaultLabelsSlice.cap |->
        IF i = 1 THEN "namespace" ELSE IF i = 2 THEN "statefulset" ELSE ""]

(***************************************************************************)
(* Label composer: createLabelKeysValues and createAnnotationKeysValues of  *)
(* package store, modelled after their contract: the keys are the          *)
(* allow-list, each value is the map's value for the key or the empty      *)
(* string.                                                                 *)
(***************************************************************************)
createLabelKeysValues(labels, allowList) ==
    << allowList,
       [i \in 1..Len(allowList) |->
           IF allowList[i] \in DOMAIN labels THEN labels[allowList[i]] ELSE ""] >>

createAnnotationKeysValues(annotations, allowList) ==
    << allowList,
       [i \in 1..Len(allowList) |->
           IF allowList[i] \in DOMAIN annotations
           THEN annotations[allowList[i]] ELSE ""] >>

(***************************************************************************)
(* The raw extractors: the closures handed to wrapStatefulSetFunc.  Each   *)
(* returns the Metrics of its metric.Family.                               *)
(***************************************************************************)
Metric(keys, values, value) ==
    [LabelKeys |-> keys, LabelValues |-> values, Value |-> value]

\* a metric.Metric literal that sets Value only
ValueOnly(value) == Metric(NilSlice, NilSlice, value)

createdFamily(s) ==
    IF s.CreationTimestamp # <<>>
    THEN << ValueOnly(s.CreationTimestamp[1]) >>
    ELSE << >>

statusReplicasFamily(s) == << ValueOnly(s.Status.Replicas) >>

statusReplicasCurrentFamily(s) == << ValueOnly(s.Status.CurrentReplicas) >>

\* the mutant: reads the wrong status field
statusReplicasReadyWrongField(s) == << ValueOnly(s.Status.Replicas) >>
statusReplicasReadyFamily(s) == << ValueOnly(s.Status.ReadyReplicas) >>

statusReplicasUpdatedFamily(s) == << ValueOnly(s.Status.UpdatedReplicas) >>

statusObservedGenerationFamily(s) == << ValueOnly(s.Status.ObservedGeneration) >>

\* the mutant: a record with the sentinel 0 when Spec.Replicas is nil
replicasSentinel(s) ==
    << ValueOnly(IF s.Spec.Replicas # <<>> THEN s.Spec.Replicas[1] ELSE 0) >>
replicasFamily(s) ==
    IF s.Spec.Replicas # <<>>
    THEN << ValueOnly(s.Spec.Replicas[1]) >>
    ELSE << >>

metadataGenerationFamily(s) == << ValueOnly(s.Generation) >>

\* the mutant: the current revision reported from the update revision
statusCurrentRevisionFromUpdate(s) ==
    << Metric(SliceLit(<<"revision">>), SliceLit(<<s.Status.UpdateRevision>>), 1) >>
statusCurrentRevisionFamily(s) ==
    << Metric(SliceLit(<<"revision">>), SliceLit(<<s.Status.CurrentRevision>>), 1) >>

statusUpdateRevisionFamily(s) ==
    << Metric(SliceLit(<<"revision">>), SliceLit(<<s.Status.UpdateRevision>>), 1) >>

\* the mutant: the labels family composed from the object's annotations
labelsFromAnnotations(s, allowList) ==
    LET kv == createLabelKeysValues(s.Annotations, allowList)
    IN  << Metric(SliceLit(kv[1]), SliceLit(kv[2]), 1) >>
labelsFamily(s, allowList) ==
    LET kv == createLabelKeysValues(s.Labels, allowList)
    IN  << Metric(SliceLit(kv[1]), SliceLit(kv[2]), 1) >>

annotationsFamily(s, allowList) ==
    LET kv == createAnnotationKeysValues(s.Annotations, allowList)
    IN  << Metric(SliceLit(kv[1]), SliceLit(kv[2]), 1) >>

(***************************************************************************)
(* The catalog                                                             *)
(***************************************************************************)
FamilyGenerator(name) == [Name |-> name, Type |-> "gauge", DeprecatedVersion |-> ""]

BaseFamilyNames ==
    << "kube_statefulset_created",
       "kube_statefulset_status_replicas",
       "kube_statefulset_status_replicas_current",
       "kube_statefulset_status_replicas_ready",
       "kube_statefulset_status_replicas_updated",
       "kube_statefulset_status_observed_generation",
       "kube_statefulset_replicas",
       "kube_statefulset_metadata_generation",
       "kube_statefulset_status_current_revision",
       "kube_statefulset_status_update_revision" >>

BaseFamilies == [i \in DOMAIN BaseFamilyNames |-> FamilyGenerator(BaseFamilyNames[i])]

\* the mutant: the annotations family appended on the labels allow-list
familiesOnLabelsListOnly(allowLabels, allowAnnotations) ==
    BaseFamilies
    \o (IF Len(allowLabels) > 0
        THEN << FamilyGenerator(descStatefulSetLabelsName) >> ELSE << >>)
    \o (IF Len(allowLabels) > 0
        THEN << FamilyGenerator("kube_statefulset_annotations") >> ELSE << >>)
statefulSetMetricFamilies(allowLabels, allowAnnotations) ==
    BaseFamilies
    \o (IF Len(allowLabels) > 0
        THEN << FamilyGenerator(descStatefulSetLabelsName) >> ELSE << >>)
    \o (IF Len(allowAnnotations) > 0
        THEN << FamilyGenerator("kube_statefulset_annotations") >> ELSE << >>)

\* the closure a generator of the catalog wraps, applied to object s
RawFamily(name, s, allowLabels, allowAnnotations) ==
    CASE name = "kube_statefulset_created" -> createdFamily(s)
      [] name = "kube_statefulset_status_replicas" -> statusReplicasFamily(s)
      [] name = "kube_statefulset_status_replicas_current" -> statusReplicasCurrentFamily(s)
      [] name = "kube_statefulset_status_replicas_ready" -> statusReplicasReadyFamily(s)
      [] name = "kube_statefulset_status_replicas_updated" -> statusReplicasUpdatedFamily(s)
      [] name = "kube_statefulset_status_observed_generation" -> statusObservedGenerationFamily(s)
      [] name = "kube_statefulset_replicas" -> replicasFamily(s)
      [] name = "kube_statefulset_metadata_generation" -> metadataGenerationFamily(s)
      [] name = "kube_statefulset_status_current_revision" -> statusCurrentRevisionFamily(s)
      [] name = "kube_statefulset_status_update_revision" -> statusUpdateRevisionFamily(s)
      [] name = descStatefulSetLabelsName -> labelsFamily(s, allowLabels)
      [] name = "kube_statefulset_annotations" -> annotationsFamily(s, allowAnnotations)

(***************************************************************************)
(* The identity label wrapper                                              *)
(***************************************************************************)
\* the mutant: name before namespace
identityValuesSwapped(s) == SliceLit(<<s.Name, s.Namespace>>)
\* []string{statefulSet.Namespace, statefulSet.Name}
identityValues(s) == SliceLit(<<s.Namespace, s.Name>>)

\* one iteration of the wrapper's loop over metric m of object s
wrapMetric(arr, s, m) ==
    [m EXCEPT
       !.LabelKeys = GoAppend(arr, DefaultLabelsSlice, Contents(arr, m.LabelKeys)),
       !.LabelValues = GoAppend(arr, identityValues(s), Contents(arr, m.LabelValues))]

(***************************************************************************)
(* The list/watch factory                                                  *)
(***************************************************************************)
ListOptions == {"", "app=web"}
LwNamespaces == {"", "ns1"}

\* what a client call may answer: a result and a nil error, or no result and an error
ClientResponses ==
    { [result |-> "items", err |-> "nil"],
      [result |-> "nil", err |-> "timeout"],
      [result |-> "nil", err |-> "forbidden"] }

NoResponse == [result |-> "nil", err |-> "nil"]

\* the mutant: the call is made for all namespaces
clientCallAllNamespaces(verb, ns, opts) == [verb |-> verb, ns |-> "", opts |-> opts]
\* kubeClient.AppsV1().StatefulSets(ns).List / .Watch (context.TODO(), opts)
clientCall(verb, ns, opts) == [verb |-> verb, ns |-> ns, opts |-> opts]

(***************************************************************************)
(* Initial states                                                          *)
(***************************************************************************)
ExtractInit(configs) ==
    /\ \E c \in configs : allowLabelsList = c[1] /\ allowAnnotationsList = c[2]
    /\ built = FALSE
    /\ families = << >>
    /\ descStatefulSetLabelsDefaultLabels = DefaultLabelsArray
    /\ pc = [w \in Workers |-> "idle"]
    /\ fam = [w \in Workers |-> 0]
    /\ statefulSet = [w \in Workers |-> ZeroStatefulSet]
    /\ metricFamily = [w \in Workers |-> << >>]
    /\ idx = [w \in Workers |-> 0]

LwInit(namespaces) ==
    /\ lwNs \in namespaces
    /\ lwRequests = << >>
    /\ clientCalls = << >>
    /\ clientReturned = NoResponse
    /\ lwReturned = NoResponse

Init == ExtractInit(Configs) /\ LwInit({""})

ConcInit == ExtractInit(ConcConfigs) /\ LwInit({""})

LwSpecInit == ExtractInit({ << <<>>, <<>> >> }) /\ LwInit(LwNamespaces)

(***************************************************************************)
(* Actions                                                                 *)
(***************************************************************************)
\* statefulSetMetricFamilies(allowLabelsList, allowAnnotationsList) is called at start-up
BuildFamilies ==
    /\ ~built
    /\ built' = TRUE
    /\ families' = statefulSetMetricFamilies(allowLabelsList, allowAnnotationsList)
    /\ UNCHANGED <<allowLabelsList, allowAnnotationsList,
                   descStatefulSetLabelsDefaultLabels, pc, fam, statefulSet,
                   metricFamily, idx>>
    /\ UNCHANGED lwVars

\* goroutine w calls the wrapped extractor of families[i] on object s:
\* the type assertion and metricFamily := f(statefulSet)
Generate(w, i, s) ==
    /\ built
    /\ pc[w] = "idle"
    /\ i \in DOMAIN families
    /\ pc' = [pc EXCEPT ![w] = "wrap"]
    /\ fam' = [fam EXCEPT ![w] = i]
    /\ statefulSet' = [statefulSet EXCEPT ![w] = s]
    /\ metricFamily' = [metricFamily EXCEPT ![w] =
            RawFamily(families[i].Name, s, allowLabelsList, allowAnnotationsList)]
    /\ idx' = [idx EXCEPT ![w] = 1]
    /\ UNCHANGED <<allowLabelsList, allowAnnotationsList, built, families,
                   descStatefulSetLabelsDefaultLabels>>
    /\ UNCHANGED lwVars

\* one iteration of `for _, m := range metricFamily.Metrics`
WrapStep(w) ==
    /\ pc[w] = "wrap"
    /\ idx[w] <= Len(metricFamily[w])
    /\ LET m == metricFamily[w][idx[w]]
           arr == descStatefulSetLabelsDefaultLabels
       IN  /\ metricFamily' = [metricFamily EXCEPT ![w][idx[w]] =
                                   wrapMetric(arr, statefulSet[w], m)]
           /\ descStatefulSetLabelsDefaultLabels' =
                  GoAppendWrites(arr, DefaultLabelsSlice, Contents(arr, m.LabelKeys))
    /\ idx' = [idx EXCEPT ![w] = idx[w] + 1]
    /\ UNCHANGED <<allowLabelsList, allowAnnotationsList, built, families, pc,
                   fam, statefulSet>>
    /\ UNCHANGED lwVars

\* `return metricFamily`
WrapReturn(w) ==
    /\ pc[w] = "wrap"
    /\ idx[w] > Len(metricFamily[w])
    /\ pc' = [pc EXCEPT ![w] = "returned"]
    /\ UNCHANGED <<allowLabelsList, allowAnnotationsList, built, families,
                   descStatefulSetLabelsDefaultLabels, fam, statefulSet,
                   metricFamily, idx>>
    /\ UNCHANGED lwVars

\* the caller is done with the family it was handed; the goroutine is free again
Release(w) ==
    /\ pc[w] = "returned"
    /\ pc' = [pc EXCEPT ![w] = "idle"]
    /\ fam' = [fam EXCEPT ![w] = 0]
    /\ statefulSet' = [statefulSet EXCEPT ![w] = ZeroStatefulSet]
    /\ metricFamily' = [metricFamily EXCEPT ![w] = << >>]
    /\ idx' = [idx EXCEPT ![w] = 0]
    /\ UNCHANGED <<allowLabelsList, allowAnnotationsList, built, families,
                   descStatefulSetLabelsDefaultLabels>>
    /\ UNCHANGED lwVars

\* ListFunc(opts) of the ListWatch built by createStatefulSetListWatch(kubeClient, lwNs)
ListFunc(opts) ==
    /\ Len(lwRequests) < MaxCalls
    /\ lwRequests' = Append(lwRequests, <<"List", opts>>)
    /\ clientCalls' = Append(clientCalls, clientCall("List", lwNs, opts))
    /\ \E r \in ClientResponses :
          /\ clientReturned' = r
          /\ lwReturned' = r
    /\ UNCHANGED lwNs
    /\ UNCHANGED extractVars

\* WatchFunc(opts) of the same ListWatch
WatchFunc(opts) ==
    /\ Len(lwRequests) < MaxCalls
    /\ lwRequests' = Append(lwRequests, <<"Watch", opts>>)
    /\ clientCalls' = Append(clientCalls, clientCall("Watch", lwNs, opts))
    /\ \E r \in ClientResponses :
          /\ clientReturned' = r
          /\ lwReturned' = r
    /\ UNCHANGED lwNs
    /\ UNCHANGED extractVars

(***************************************************************************)
(* Specifications                                                          *)
(***************************************************************************)
\* one extractor at a time, over all objects and allow-lists
Next ==
    \/ BuildFamilies
    \/ \E i \in 1..(Len(BaseFamilyNames) + 2), s \in Objects : Generate(1, i, s)
    \/ WrapStep(1)
    \/ WrapReturn(1)
    \/ Release(1)

Spec == Init /\ [][Next]_vars

\* extractors running concurrently
ConcNext ==
    \/ BuildFamilies
    \/ \E w \in Workers, i \in 1..(Len(BaseFamilyNames) + 2), s \in ConcObjects :
          Generate(w, i, s)
    \/ \E w \in Workers : WrapStep(w)
    \/ \E w \in Workers : WrapReturn(w)
    \/ \E w \in Workers : Release(w)

ConcSpec == ConcInit /\ [][ConcNext]_vars

\* the list/watch pair
LwNext ==
    \/ \E opts \in ListOptions : ListFunc(opts)
    \/ \E opts \in ListOptions : WatchFunc(opts)

LwSpec == LwSpecInit /\ [][LwNext]_vars

(***************************************************************************)
(* Observations used by the properties                                     *)
(***************************************************************************)
\* the label keys / values a consumer reads from metric m
Keys(m) == Contents(descStatefulSetLabelsDefaultLabels, m.LabelKeys)
Values(m) == Contents(descStatefulSetLabelsDefaultLabels, m.LabelValues)

Returned(w) == pc[w] = "returned"
FamilyName(w) == families[fam[w]].Name
\* goroutine w has returned from the wrapped extractor of family name
ReturnedFrom(w, name) == Returned(w) /\ FamilyName(w) = name

\* the metrics goroutine w has returned
Records(w) ==
    [i \in DOMAIN metricFamily[w] |->
        [keys   |-> Keys(metricFamily[w][i]),
         values |-> Values(metricFamily[w][i]),
         value  |-> metricFamily[w][i].Value]]

\* the labels the raw extractor of goroutine w's family gives its i-th metric
OwnKeys(w, i) ==
    RawFamily(FamilyName(w), statefulSet[w], allowLabelsList,
              allowAnnotationsList)[i].LabelKeys.elems
OwnValues(w, i) ==
    RawFamily(FamilyName(w), statefulSet[w], allowLabelsList,
              allowAnnotationsList)[i].LabelValues.elems

Tail2(q) == SubSeq(q, 3, Len(q))
NoRepeat(q) == \A i, j \in DOMAIN q : q[i] = q[j] => i = j
Range(q) == { q[i] : i \in DOMAIN q }

\* every returned record starts with identity keys idKeys and the object's
\* namespace and name, followed by the extractor's own labels
IdentityFirst(idKeys) ==
    \A w \in Workers :
        Returned(w) =>
            \A i \in DOMAIN metricFamily[w] :
                LET r == Records(w)[i]
                IN  /\ Len(r.keys) >= 2 /\ Len(r.values) >= 2
                    /\ SubSeq(r.keys, 1, 2) = idKeys
                    /\ SubSeq(r.values, 1, 2)
                         = <<statefulSet[w].Namespace, statefulSet[w].Name>>
                    /\ Tail2(r.keys) = OwnKeys(w, i)
                    /\ Tail2(r.values) = OwnValues(w, i)

(***************************************************************************)
(* C1                                                                      *)
(***************************************************************************)
\* C1, as stated: every record of every wrapped extractor starts with the
\* label keys [namespace, name] and the object's namespace and name, and the
\* extractor's own labels follow unchanged.
C1_IdentityKeysNamespaceName == IdentityFirst(<<"namespace", "name">>)

\* C1, amended: every record of every wrapped extractor starts with the label
\* keys [namespace, statefulset] and the object's namespace and name, and the
\* extractor's own labels follow unchanged and in their order.
C1_IdentityKeysNamespaceStatefulset == IdentityFirst(<<"namespace", "statefulset">>)

\* a conditional family has returned a record with labels of its own
C1_Witness ==
    /\ ReturnedFrom(1, descStatefulSetLabelsName)
    /\ allowLabelsList = <<"a", "c">>
    /\ statefulSet[1].Namespace = "ns2"
    /\ Len(metricFamily[1]) = 1
    /\ Len(Records(1)[1].keys) = 4

(***************************************************************************)
(* C2                                                                      *)
(***************************************************************************)
FamilyNames == [i \in DOMAIN families |-> families[i].Name]
Positions(name) == { i \in DOMAIN families : families[i].Name = name }

\* C2: the catalog starts with the ten base families in their fixed order; the
\* labels family is in it iff allowLabelsList is non-empty, the annotations
\* family iff allowAnnotationsList is non-empty, each at most once, both after
\* the base families, labels before annotations.
C2_CatalogShape ==
    built =>
        /\ Len(families) >= 10
        /\ SubSeq(FamilyNames, 1, 10)
             = << "kube_statefulset_created",
                  "kube_statefulset_status_replicas",
                  "kube_statefulset_status_replicas_current",
                  "kube_statefulset_status_replicas_ready",
                  "kube_statefulset_status_replicas_updated",
                  "kube_statefulset_status_observed_generation",
                  "kube_statefulset_replicas",
                  "kube_statefulset_metadata_generation",
                  "kube_statefulset_status_current_revision",
                  "kube_statefulset_status_update_revision" >>
        /\ (Positions("kube_statefulset_labels") # {}) <=> (Len(allowLabelsList) > 0)
        /\ (Positions("kube_statefulset_annotations") # {})
              <=> (Len(allowAnnotationsList) > 0)
        /\ Cardinality(Positions("kube_statefulset_labels")) <= 1
        /\ Cardinality(Positions("kube_statefulset_annotations")) <= 1
        /\ \A i \in Positions("kube_statefulset_labels")
                    \cup Positions("kube_statefulset_annotations") : i > 10
        /\ \A i \in Positions("kube_statefulset_labels"),
              j \in Positions("kube_statefulset_annotations") : i < j
        /\ Len(families) = 10 + Cardinality(Positions("kube_statefulset_labels"))
                              + Cardinality(Positions("kube_statefulset_annotations"))

\* a catalog built with annotations allowed and no labels allowed
C2_Witness ==
    /\ built
    /\ allowLabelsList = << >>
    /\ allowAnnotationsList # << >>
    /\ Len(families) = 11

(***************************************************************************)
(* C3                                                                      *)
(***************************************************************************)
\* the replicas and created families emit no record for an absent field and
\* one record with the field's value otherwise
OptionalFields ==
    \A w \in Workers :
        /\ ReturnedFrom(w, "kube_statefulset_replicas") =>
              IF statefulSet[w].Spec.Replicas = << >>
              THEN Len(metricFamily[w]) = 0
              ELSE /\ Len(metricFamily[w]) = 1
                   /\ metricFamily[w][1].Value = statefulSet[w].Spec.Replicas[1]
        /\ ReturnedFrom(w, "kube_statefulset_created") =>
              IF statefulSet[w].CreationTimestamp = << >>
              THEN Len(metricFamily[w]) = 0
              ELSE /\ Len(metricFamily[w]) = 1
                   /\ metricFamily[w][1].Value = statefulSet[w].CreationTimestamp[1]

\* the object of the end-to-end scenario
ScenarioObject == [Named("ns1", "web") EXCEPT !.Status.ReadyReplicas = 3]

\* the scenario: empty allow-lists, the scenario object, and what the created,
\* replicas and ready-replicas families return for it, the identity keys being idKeys
Scenario(idKeys) ==
    \A w \in Workers :
        (/\ Returned(w)
         /\ allowLabelsList = << >> /\ allowAnnotationsList = << >>
         /\ statefulSet[w] = ScenarioObject)
        => /\ FamilyName(w) \in {"kube_statefulset_created", "kube_statefulset_replicas"}
                => Records(w) = << >>
           /\ FamilyName(w) = "kube_statefulset_status_replicas_ready"
                => Records(w) = << [keys |-> idKeys, values |-> <<"ns1", "web">>,
                                    value |-> 3] >>

\* C3, as stated: no sentinel record for an absent optional field, and in the
\* scenario the ready-replicas record carries labels [namespace=ns1, name=web].
C3_OptionalFieldsNameKey == OptionalFields /\ Scenario(<<"namespace", "name">>)

\* C3, amended: no sentinel record for an absent optional field (zero records
\* when absent, one record with the value otherwise, 0 included), and in the
\* scenario the ready-replicas record carries labels
\* [namespace=ns1, statefulset=web] and value 3.
C3_OptionalFields == OptionalFields /\ Scenario(<<"namespace", "statefulset">>)

\* the replicas family has returned no record for an object without Spec.Replicas
C3_Witness ==
    /\ ReturnedFrom(1, "kube_statefulset_replicas")
    /\ statefulSet[1] = ScenarioObject
    /\ allowLabelsList = << >> /\ allowAnnotationsList = << >>
    /\ Records(1) = << >>

(***************************************************************************)
(* C4                                                                      *)
(***************************************************************************)
\* the field each status-counter family reports
CounterField(name, s) ==
    CASE name = "kube_statefulset_status_replicas" -> s.Status.Replicas
      [] name = "kube_statefulset_status_replicas_current" -> s.Status.CurrentReplicas
      [] name = "kube_statefulset_status_replicas_ready" -> s.Status.ReadyReplicas
      [] name = "kube_statefulset_status_replicas_updated" -> s.Status.UpdatedReplicas
      [] name = "kube_statefulset_status_observed_generation" -> s.Status.ObservedGeneration
      [] name = "kube_statefulset_metadata_generation" -> s.Generation

CounterFamilyNames ==
    { "kube_statefulset_status_replicas",
      "kube_statefulset_status_replicas_current",
      "kube_statefulset_status_replicas_ready",
      "kube_statefulset_status_replicas_updated",
      "kube_statefulset_status_observed_generation",
      "kube_statefulset_metadata_generation" }

\* C4: each status-counter extractor returns exactly one record, whose value is
\* its field of the object (0 when unset) and whose labels are the two
\* identity labels only.
C4_StatusCounters ==
    \A w \in Workers :
        (Returned(w) /\ FamilyName(w) \in CounterFamilyNames) =>
            /\ Len(metricFamily[w]) = 1
            /\ Records(w)[1].value = CounterField(FamilyName(w), statefulSet[w])
            /\ Records(w)[1].keys = <<"namespace", "statefulset">>
            /\ Records(w)[1].values
                 = <<statefulSet[w].Namespace, statefulSet[w].Name>>

\* the ready-replicas family has returned 3 for an object whose other counters differ
C4_Witness ==
    /\ ReturnedFrom(1, "kube_statefulset_status_replicas_ready")
    /\ statefulSet[1].Status.ReadyReplicas = 3
    /\ statefulSet[1].Status.Replicas = 0
    /\ Records(1)[1].value = 3

(***************************************************************************)
(* C5                                                                      *)
(***************************************************************************)
\* C5: each revision extractor returns exactly one record with value 1 whose
\* labels are the two identity labels followed by the single label revision,
\* carrying Status.CurrentRevision (respectively Status.UpdateRevision), the
\* empty string included.
C5_Revisions ==
    \A w \in Workers :
        /\ ReturnedFrom(w, "kube_statefulset_status_current_revision") =>
              /\ Len(metricFamily[w]) = 1
              /\ Records(w)[1].value = 1
              /\ Len(Records(w)[1].keys) = 3
              /\ Tail2(Records(w)[1].keys) = <<"revision">>
              /\ Records(w)[1].values
                   = <<statefulSet[w].Namespace, statefulSet[w].Name,
                       statefulSet[w].Status.CurrentRevision>>
        /\ ReturnedFrom(w, "kube_statefulset_status_update_revision") =>
              /\ Len(metricFamily[w]) = 1
              /\ Records(w)[1].value = 1
              /\ Len(Records(w)[1].keys) = 3
              /\ Tail2(Records(w)[1].keys) = <<"revision">>
              /\ Records(w)[1].values
                   = <<statefulSet[w].Namespace, statefulSet[w].Name,
                       statefulSet[w].Status.UpdateRevision>>

\* the current-revision family has returned for an object with an empty
\* current revision and a non-empty update revision
C5_Witness ==
    /\ ReturnedFrom(1, "kube_statefulset_status_current_revision")
    /\ statefulSet[1].Status.CurrentRevision = ""
    /\ statefulSet[1].Status.UpdateRevision = "web-2"
    /\ Records(1)[1].values[3] = ""

(***************************************************************************)
(* C6                                                                      *)
(***************************************************************************)
\* the record is the info record of allow-list allowList over map m
AllowListRecord(r, allowList, m) ==
    /\ r.value = 1
    /\ Tail2(r.keys) = allowList
    /\ Len(r.values) = 2 + Len(allowList)
    /\ \A i \in DOMAIN allowList :
          r.values[2 + i] = IF allowList[i] \in DOMAIN m THEN m[allowList[i]] ELSE ""

\* C6: the labels (annotations) family returns exactly one record with value 1
\* whose labels beyond the identity labels are the allow-list keys in
\* allow-list order, each with the object's value for the key or the empty
\* string; labels {a:1,b:2,c:3} with allow-list [a,c] give [a,c] and [1,3].
C6_AllowListFamilies ==
    \A w \in Workers :
        /\ ReturnedFrom(w, "kube_statefulset_labels") =>
              /\ Len(metricFamily[w]) = 1
              /\ AllowListRecord(Records(w)[1], allowLabelsList, statefulSet[w].Labels)
              /\ (/\ allowLabelsList = <<"a", "c">>
                  /\ statefulSet[w].Labels = ("a" :> "1" @@ "b" :> "2" @@ "c" :> "3"))
                 => /\ Tail2(Records(w)[1].keys) = <<"a", "c">>
                    /\ Tail2(Records(w)[1].values) = <<"1", "3">>
        /\ ReturnedFrom(w, "kube_statefulset_annotations") =>
              /\ Len(metricFamily[w]) = 1
              /\ AllowListRecord(Records(w)[1], allowAnnotationsList,
                                 statefulSet[w].Annotations)

\* the labels family has returned for labels {a:1,b:2,c:3} under allow-list [a,c]
C6_Witness ==
    /\ ReturnedFrom(1, "kube_statefulset_labels")
    /\ allowLabelsList = <<"a", "c">>
    /\ statefulSet[1].Labels = ("a" :> "1" @@ "b" :> "2" @@ "c" :> "3")
    /\ statefulSet[1].Annotations = ("a" :> "x" @@ "b" :> "y")
    /\ Tail2(Records(1)[1].values) = <<"1", "3">>

(***************************************************************************)
(* C7                                                                      *)
(***************************************************************************)
\* C7: every record of every wrapped extractor has as many label values as
\* label keys, and no label key twice.
C7_KeysWellFormed ==
    \A w \in Workers :
        Returned(w) =>
            \A i \in DOMAIN metricFamily[w] :
                /\ Len(Records(w)[i].keys) = Len(Records(w)[i].values)
                /\ NoRepeat(Records(w)[i].keys)

(***************************************************************************)
(* C8                                                                      *)
(***************************************************************************)
\* the label names the wrapper prepends
ReservedNames == {"namespace", "statefulset"}

Malformed(allowList) ==
    \/ ~NoRepeat(allowList)
    \/ Range(allowList) \cap ReservedNames # {}

\* C8: a configuration with a duplicate allow-list key, or a key that is a
\* reserved identity label name, is rejected when the catalog is built: no
\* catalog is returned for it and no extractor runs under it.
C8_MalformedRejected ==
    (Malformed(allowLabelsList) \/ Malformed(allowAnnotationsList)) =>
        /\ families = << >>
        /\ \A w \in Workers : pc[w] = "idle"

(***************************************************************************)
(* C9                                                                      *)
(***************************************************************************)
\* the records the wrapped extractor of family name returns for object s when
\* nothing else runs: the raw extractor's metrics behind the identity labels
Alone(name, s) ==
    LET raw == RawFamily(name, s, allowLabelsList, allowAnnotationsList)
    IN  [i \in DOMAIN raw |->
            [keys   |-> <<"namespace", "statefulset">> \o raw[i].LabelKeys.elems,
             values |-> <<s.Namespace, s.Name>> \o raw[i].LabelValues.elems,
             value  |-> raw[i].Value]]

\* what has been returned reads as if each invocation had run alone, and the
\* shared identity label list reads as at start-up
ReturnedAsAlone ==
    /\ SubSeq(descStatefulSetLabelsDefaultLabels, 1, 2) = <<"namespace", "statefulset">>
    /\ \A w \in Workers :
          Returned(w) => Records(w) = Alone(FamilyName(w), statefulSet[w])
    /\ \A v, w \in Workers :
          (Returned(v) /\ Returned(w) /\ fam[v] = fam[w]
             /\ statefulSet[v] = statefulSet[w])
          => Records(v) = Records(w)

\* no step changes the allow-lists, the catalog, the shared label list, or the
\* object or the family a running or returned invocation holds
NothingSharedWritten ==
    /\ allowLabelsList' = allowLabelsList
    /\ allowAnnotationsList' = allowAnnotationsList
    /\ built => families' = families
    /\ descStatefulSetLabelsDefaultLabels' = descStatefulSetLabelsDefaultLabels
    /\ \A w \in Workers :
          /\ (pc[w] # "idle" /\ pc'[w] # "idle") =>
                /\ statefulSet'[w] = statefulSet[w]
                /\ fam'[w] = fam[w]
          \* a record handed out keeps reading the same while its caller holds it
          /\ (Returned(w) /\ pc'[w] = "returned") => Records(w)' = Records(w)

\* C9: under any interleaving of wrapped-extractor invocations each invocation
\* returns the records it would return alone, two invocations of one extractor
\* on one object return the same records, and no step modifies an input
\* object, the allow-lists or the shared identity label list.
C9_HistoryIndependent == []ReturnedAsAlone /\ [][NothingSharedWritten]_vars

\* one goroutine holds the record of a revision family while another has
\* returned from the labels family of a different object
C9_Witness ==
    /\ ReturnedFrom(1, "kube_statefulset_status_current_revision")
    /\ ReturnedFrom(2, "kube_statefulset_labels")
    /\ statefulSet[1] # statefulSet[2]
    /\ Len(Records(1)[1].keys) = 3
    /\ Len(Records(2)[1].keys) = 4

(***************************************************************************)
(* C10                                                                     *)
(***************************************************************************)
\* C10: every ListFunc / WatchFunc call makes exactly one client call, of the
\* same verb, for the namespace the ListWatch was built with and with the
\* caller's options, and returns the client's result and error as they are.
C10_ListWatchPassThrough ==
    /\ Len(clientCalls) = Len(lwRequests)
    /\ \A i \in DOMAIN lwRequests :
          clientCalls[i] = [verb |-> lwRequests[i][1], ns |-> lwNs,
                            opts |-> lwRequests[i][2]]
    /\ lwReturned = clientReturned
    /\ (lwRequests # << >>) => lwReturned \in ClientResponses

\* a watch on namespace ns1 has failed and the error reached the caller
C10_Witness ==
    /\ lwNs = "ns1"
    /\ Len(lwRequests) = 2
    /\ lwRequests[2] = <<"Watch", "app=web">>
    /\ lwReturned = [result |-> "nil", err |-> "forbidden"]

====
